---- MODULE Spec2Model ----
(***************************************************************************)
(* Image sync of the recipe site (download_images.py): one run loads the   *)
(* recipe collection and the URL manifest, walks the recipes in order,     *)
(* fetches the images that are new, untracked or changed, and writes the   *)
(* manifest and the augmented collection.  Runs follow one another on the  *)
(* same disk.                                                              *)
(*                                                                         *)
(* Site generator (generate_site.py): slugify and parse_duration, each     *)
(* applied to every string of a bounded alphabet, and one run of           *)
(* generate_site: static files, recipes, pages, index, about page,         *)
(* sitemap, summary.                                                       *)
(***************************************************************************)
EXTENDS Integers, Sequences, FiniteSets, TLC

\* ------------------------------------------------------------------ bounds
MaxRecipes == 2
MaxRuns == 2

\* --------------------------------------------------------------- the inputs
\* URLs are character sequences, so that the path and its suffix are computed.
\* h://x/a.png?v.g   (a suffix, and a query that holds a dot)
UrlA == <<"h", ":", "/", "/", "x", "/", "a", ".", "p", "n", "g", "?", "v", ".", "g">>
\* h://x.y/c         (a dot in the host only: the path has no suffix)
UrlC == <<"h", ":", "/", "/", "x", ".", "y", "/", "c">>
Urls == {UrlA, UrlC}

\* A key the record does not hold.
NoId == "(absent)"
NoLocal == <<>>
Identifiers == {"r1", NoId}

\* recipe.get('image', []): absent, a list of URLs, or one bare URL string.
ImageAbsent == [kind |-> "absent", val |-> <<>>]
ImageList(l) == [kind |-> "list", val |-> l]
ImageStr(u) == [kind |-> "str", val |-> u]
Images ==
    {ImageAbsent, ImageList(<<>>), ImageStr(<<>>),
     ImageStr(UrlA), ImageList(<<UrlC, UrlA>>)}

Recipes == [identifier : Identifiers, image : Images, localImage : {NoLocal}]
Collections == UNION {[1..n -> Recipes] : n \in 0..MaxRecipes}

\* ---------------------------------------------------------- pure functions
\* str.rfind(c): the last index of c in s, 0 when there is none.
RECURSIVE RFind(_, _, _)
RFind(s, c, k) ==
    IF k = 0 THEN 0
    ELSE IF s[k] = c THEN k
    ELSE RFind(s, c, k - 1)

\* str.find over a set of characters: the first index, Len(s) + 1 when none.
RECURSIVE FindAny(_, _, _)
FindAny(s, cs, k) ==
    IF k > Len(s) THEN Len(s) + 1
    ELSE IF s[k] \in cs THEN k
    ELSE FindAny(s, cs, k + 1)

\* urlparse(url).path: after "scheme:", after "//netloc", up to "?", "#",
\* and without the ";params" of the last segment.
UrlPath(url) ==
    LET colon == FindAny(url, {":"}, 1)
        rest == IF colon <= Len(url) THEN SubSeq(url, colon + 1, Len(url)) ELSE url
        hasNetloc == Len(rest) >= 2 /\ rest[1] = "/" /\ rest[2] = "/"
        afterNet ==
            IF hasNetloc
            THEN SubSeq(rest, FindAny(rest, {"/", "?", "#"}, 3), Len(rest))
            ELSE rest
        path == SubSeq(afterNet, 1, FindAny(afterNet, {"?", "#"}, 1) - 1)
        slash == RFind(path, "/", Len(path))
        semi == FindAny(path, {";"}, slash + 1)
    IN  SubSeq(path, 1, semi - 1)

\* os.path.splitext(p)[1]: from the last dot of the last segment, unless
\* only dots precede it in that segment.
SplitExt(p) ==
    LET sepIndex == RFind(p, "/", Len(p))
        dotIndex == RFind(p, ".", Len(p))
    IN  IF dotIndex > sepIndex
             /\ \E k \in (sepIndex + 1)..(dotIndex - 1) : p[k] # "."
        THEN SubSeq(p, dotIndex, Len(p))
        ELSE <<>>

DefaultExt == <<".", "j", "p", "g">>

\* Variant: no default suffix.
Ext_NoDefault(url) == SplitExt(UrlPath(url))

\* ext = os.path.splitext(parsed.path)[1] or '.jpg'
Ext(url) ==
    LET e == SplitExt(UrlPath(url))
    IN  IF e = <<>> THEN DefaultExt ELSE e

\* f'recipe-{i}'
DefaultIds == <<"recipe-1", "recipe-2", "recipe-3", "recipe-4">>
DefaultId(i) == DefaultIds[i]

\* recipe.get('identifier', f'recipe-{i}')
RecipeId(recipe, i) ==
    IF recipe.identifier = NoId THEN DefaultId(i) ELSE recipe.identifier

\* Variant: only the empty list counts as no image.
NoImages_ListOnly(recipe) == recipe.image.kind # "str" /\ recipe.image.val = <<>>

\* `not images`
NoImages(recipe) == recipe.image.val = <<>>

\* images[0] if isinstance(images, list) else images
ImageUrl(recipe) ==
    IF recipe.image.kind = "list" THEN recipe.image.val[1] ELSE recipe.image.val

\* f"{recipe_id}{ext}"
FileName(recipe_id, ext) == <<recipe_id>> \o ext

\* f"images/{filename}"
LocalImage(filename) == <<"images/">> \o filename

AllIds == {"r1"} \cup {DefaultId(i) : i \in 1..MaxRecipes}
Exts == {Ext(u) : u \in Urls}
FileNames == {FileName(id, e) : id \in AllIds, e \in Exts}

\* --------------------------------------------------------------- the disk
NoFile == [src |-> "none", url |-> <<>>]
OldFile == [src |-> "old", url |-> <<>>]
PartialFile == [src |-> "partial", url |-> <<>>]
Fetched(u) == [src |-> "net", url |-> u]

EmptyMap == [id \in {} |-> <<>>]
NoManifest == [exists |-> FALSE, map |-> EmptyMap]

\* recipes_file = 'data/recipes.json'
recipes_file == <<"data", "recipes.json">>
\* Path(recipes_file).parent / 'recipes_with_local_images.json'
OutputJson(file) == <<file[1], "recipes_with_local_images.json">>
DataFiles == {recipes_file, <<"data", "recipes_with_local_images.json">>}
NoData == [exists |-> FALSE, recipes |-> <<>>]

VARIABLES
    dataDir,       \* the data directory: path -> [exists, recipes]
    manifestFile,  \* images/.image_urls.json: [exists, map]
    files,         \* the image directory: file name -> content
    pc,            \* where the run is
    run,           \* the number of the run
    data,          \* data['recipes'], in memory
    image_map,     \* the manifest, in memory
    i,             \* the loop index, from 1
    total, downloaded, skipped, failed, updated,
    startMap,      \* history: image_map as loaded
    log,           \* history: what each iteration of this run did
    prevLog,       \* history: log of the run before
    \* generate_site.py
    sitePc,        \* where the site generator is
    text, slug, reslug,        \* slugify: its argument, its result, the
                               \* result of slugify on that result
    duration_str, parsed,      \* parse_duration: its argument, its result
    cwd,           \* the source files the working directory holds
    site_recipes_file,         \* the recipes file the generator chose
    recipes,       \* data['recipes'] of the generator
    recipes_meta,  \* what generate_recipe_page returned, in order
    page_i,        \* the generator's loop index, from 1
    public,        \* the output directory: file name -> content
    console        \* what the generator printed

syncVars == <<dataDir, manifestFile, files, pc, run, data, image_map, i,
              total, downloaded, skipped, failed, updated, startMap, log, prevLog>>
siteVars == <<sitePc, text, slug, reslug, duration_str, parsed, cwd,
              site_recipes_file, recipes, recipes_meta, page_i, public, console>>
vars == <<syncVars, siteVars>>

slugVars == <<text, slug, reslug>>
durationVars == <<duration_str, parsed>>
generatorVars == <<cwd, site_recipes_file, recipes, recipes_meta, page_i,
                   public, console>>

disk == <<dataDir, manifestFile, files>>
counters == <<total, downloaded, skipped, failed, updated>>

\* The disk a run starts on.  A run reads and writes only the target files and
\* the manifest entries of its own recipes; of the rest of the disk the model
\* keeps at most one manifest entry of another identifier.
WithImage(c) == {k \in DOMAIN c : ~NoImages(c[k])}
TargetFiles(c) == {FileName(RecipeId(c[k], k), Ext(ImageUrl(c[k]))) : k \in WithImage(c)}
TargetIds(c) == {RecipeId(c[k], k) : k \in WithImage(c)}
InitFiles(c) ==
    {[n \in FileNames |-> IF n \in S THEN OldFile ELSE NoFile] :
        S \in SUBSET TargetFiles(c)}
OtherEntries(c) == {{}} \cup {{o} : o \in AllIds \ TargetIds(c)}
InitMaps(c) ==
    UNION {{[id \in DOMAIN m \cup O |-> IF id \in O THEN UrlA ELSE m[id]] :
               O \in OtherEntries(c)} :
           m \in UNION {[D -> Urls] : D \in SUBSET TargetIds(c)}}

\* The site generator is not running.
SlugOff == text = <<>> /\ slug = <<>> /\ reslug = <<>>
DurationOff == duration_str = <<>> /\ parsed = <<>>
GeneratorOff ==
    /\ cwd = {}
    /\ site_recipes_file = <<>>
    /\ recipes = <<>>
    /\ recipes_meta = <<>>
    /\ page_i = 1
    /\ public = EmptyMap
    /\ console = <<>>
SiteOff == sitePc = "off" /\ SlugOff /\ DurationOff /\ GeneratorOff

InitFrom(c) ==
    /\ SiteOff
    /\ dataDir = [p \in DataFiles |->
                     IF p = recipes_file
                     THEN [exists |-> TRUE, recipes |-> c]
                     ELSE NoData]
    /\ manifestFile \in
           {NoManifest} \cup {[exists |-> TRUE, map |-> m] : m \in InitMaps(c)}
    /\ files \in InitFiles(c)
    /\ pc = "start"
    /\ run = 1
    /\ data = <<>>
    /\ image_map = EmptyMap
    /\ i = 1
    /\ total = 0 /\ downloaded = 0 /\ skipped = 0 /\ failed = 0 /\ updated = 0
    /\ startMap = EmptyMap
    /\ log = <<>>
    /\ prevLog = <<>>

Init == \E c \in Collections : InitFrom(c)

\* ------------------------------------------------------------- operations
\* Lines 16-37: load the recipes and the manifest, reset the counters.
Load ==
    /\ pc = "start"
    /\ data' = dataDir[recipes_file].recipes
    /\ image_map' = IF manifestFile.exists THEN manifestFile.map ELSE EmptyMap
    /\ total' = Len(dataDir[recipes_file].recipes)
    /\ downloaded' = 0 /\ skipped' = 0 /\ failed' = 0 /\ updated' = 0
    /\ i' = 1
    /\ startMap' = image_map'
    /\ log' = <<>>
    /\ pc' = "loop"
    /\ UNCHANGED <<disk, run, prevLog, siteVars>>

\* Variant: a tracked file is downloaded again whatever its recorded URL.
Reason_NoCompare(fileExists, map, recipe_id, image_url) ==
    IF ~fileExists THEN "new image"
    ELSE IF recipe_id \in DOMAIN map THEN "URL changed"
    ELSE "not tracked"

\* Variant: an untracked file that exists is left alone.
Reason_SkipUntracked(fileExists, map, recipe_id, image_url) ==
    IF ~fileExists THEN "new image"
    ELSE IF recipe_id \in DOMAIN map /\ map[recipe_id] # image_url THEN "URL changed"
    ELSE "none"

\* Lines 58-68: the reason to download, "none" when there is none.
Reason(fileExists, map, recipe_id, image_url) ==
    IF ~fileExists THEN "new image"
    ELSE IF recipe_id \in DOMAIN map /\ map[recipe_id] # image_url THEN "URL changed"
    ELSE IF recipe_id \notin DOMAIN map THEN "not tracked"
    ELSE "none"

\* Variant: the manifest is not updated.
Track_Keep(map, recipe_id, image_url) == map

\* Line 79: image_map[recipe_id] = image_url
Track(map, recipe_id, image_url) ==
    [id \in DOMAIN map \cup {recipe_id} |->
        IF id = recipe_id THEN image_url ELSE map[id]]

\* Variant: the manifest is updated before the fetch is known to succeed.
MapAfterFailure_Tracked(map, recipe_id, image_url) ==
    Track(map, recipe_id, image_url)

\* Lines 78-87: urlretrieve raised, so line 79 did not run.
MapAfterFailure(map, recipe_id, image_url) == map

\* Variant: a failure ends the loop.
AfterFailure_Break(k) == total + 1

\* Variant: a failure tries the same recipe again.
AfterFailure_Retry(k) == k

\* Lines 83, 87: `continue` goes to the next recipe.
AfterFailure(k) == k + 1

\* Line 93: recipe['localImage'] = f"images/{filename}"
SetLocal(d, k, filename) == [d EXCEPT ![k].localImage = LocalImage(filename)]

Current == data[i]
CurId == RecipeId(Current, i)
CurUrl == ImageUrl(Current)
CurFile == FileName(CurId, Ext(CurUrl))
CurExists == files[CurFile] # NoFile
CurReason == Reason(CurExists, image_map, CurId, CurUrl)

\* What the iteration found and did (history only).
\*   existed: the target file was there; was: the manifest entry, <<>> if none.
Entry(kind, reason, ok) ==
    IF NoImages(Current)
    THEN [i |-> i, id |-> CurId, url |-> <<>>, existed |-> FALSE, was |-> <<>>,
          kind |-> kind, reason |-> reason, ok |-> ok]
    ELSE [i |-> i, id |-> CurId, url |-> CurUrl, existed |-> CurExists,
          was |-> IF CurId \in DOMAIN image_map THEN image_map[CurId] ELSE <<>>,
          kind |-> kind, reason |-> reason, ok |-> ok]

\* Lines 44-47: no image.
SkipNoImage ==
    /\ pc = "loop" /\ i <= total
    /\ NoImages(Current)
    /\ skipped' = skipped + 1
    /\ log' = Append(log, Entry("noimage", "none", TRUE))
    /\ i' = i + 1
    /\ UNCHANGED <<disk, pc, run, data, image_map, total, downloaded, failed,
                   updated, startMap, prevLog, siteVars>>

\* Variant: localImage is set only where an image was downloaded.
SkipExisting_NoLocal ==
    /\ pc = "loop" /\ i <= total
    /\ ~NoImages(Current)
    /\ CurReason = "none"
    /\ skipped' = skipped + 1
    /\ log' = Append(log, Entry("exists", "none", TRUE))
    /\ i' = i + 1
    /\ UNCHANGED <<disk, pc, run, data, image_map, total, downloaded, failed,
                   updated, startMap, prevLog, siteVars>>

\* Lines 88-93: the file is there and tracked under this URL.
SkipExisting ==
    /\ pc = "loop" /\ i <= total
    /\ ~NoImages(Current)
    /\ CurReason = "none"
    /\ skipped' = skipped + 1
    /\ data' = SetLocal(data, i, CurFile)
    /\ log' = Append(log, Entry("exists", "none", TRUE))
    /\ i' = i + 1
    /\ UNCHANGED <<disk, pc, run, image_map, total, downloaded, failed,
                   updated, startMap, prevLog, siteVars>>

\* Variant: every download over an existing file counts as an update.
CountAttempt_Existing ==
    IF CurReason # "new image"
    THEN updated' = updated + 1 /\ downloaded' = downloaded
    ELSE downloaded' = downloaded + 1 /\ updated' = updated

\* Lines 72-77: the counter a download attempt increments, before the fetch.
CountAttempt ==
    IF CurReason = "URL changed"
    THEN updated' = updated + 1 /\ downloaded' = downloaded
    ELSE downloaded' = downloaded + 1 /\ updated' = updated

\* Lines 70-79, 93: the fetch succeeds.
FetchOk ==
    /\ pc = "loop" /\ i <= total
    /\ ~NoImages(Current)
    /\ CurReason # "none"
    /\ CountAttempt
    /\ files' = [files EXCEPT ![CurFile] = Fetched(CurUrl)]
    /\ image_map' = Track(image_map, CurId, CurUrl)
    /\ data' = SetLocal(data, i, CurFile)
    /\ log' = Append(log, Entry("fetch", CurReason, TRUE))
    /\ i' = i + 1
    /\ UNCHANGED <<dataDir, manifestFile, pc, run, total, skipped, failed,
                   startMap, prevLog, siteVars>>

\* Lines 70-87: urlretrieve raises.  It raises before it opens the target
\* file (which is then as it was) or after (a partial file is left).
FetchFail ==
    /\ pc = "loop" /\ i <= total
    /\ ~NoImages(Current)
    /\ CurReason # "none"
    /\ CountAttempt
    /\ failed' = failed + 1
    /\ \/ files' = files
       \/ files' = [files EXCEPT ![CurFile] = PartialFile]
    /\ image_map' = MapAfterFailure(image_map, CurId, CurUrl)
    /\ log' = Append(log, Entry("fetch", CurReason, FALSE))
    /\ i' = AfterFailure(i)
    /\ UNCHANGED <<dataDir, manifestFile, pc, run, data, total, skipped,
                   startMap, prevLog, siteVars>>

\* Variant: only the entries of this run's recipes are written.
ManifestToWrite_OwnOnly(map) ==
    [id \in DOMAIN map \cap {log[k].id : k \in DOMAIN log} |-> map[id]]

\* Line 97: json.dump(image_map, f): the whole mapping.
ManifestToWrite(map) == map

\* Lines 95-97: after the loop, the manifest file is rewritten in full.
SaveManifest ==
    /\ pc = "loop" /\ i > total
    /\ manifestFile' = [exists |-> TRUE, map |-> ManifestToWrite(image_map)]
    /\ pc' = "save_recipes"
    /\ UNCHANGED <<dataDir, files, run, data, image_map, i, counters, startMap,
                   log, prevLog, siteVars>>

\* Lines 99-102: the augmented collection is written beside the input.
SaveRecipes ==
    /\ pc = "save_recipes"
    /\ dataDir' = [dataDir EXCEPT ![OutputJson(recipes_file)] =
                      [exists |-> TRUE, recipes |-> data]]
    /\ pc' = "done"
    /\ UNCHANGED <<manifestFile, files, run, data, image_map, i, counters,
                   startMap, log, prevLog, siteVars>>

\* Lines 113-116: the script is run again, on the disk the last run left.
Rerun ==
    /\ pc = "done" /\ run < MaxRuns
    /\ run' = run + 1
    /\ prevLog' = log
    /\ log' = <<>>
    /\ pc' = "start"
    /\ UNCHANGED <<disk, data, image_map, i, counters, startMap, siteVars>>

Next ==
    \/ Load
    \/ SkipNoImage
    \/ SkipExisting
    \/ FetchOk
    \/ FetchFail
    \/ SaveManifest
    \/ SaveRecipes

\* One run of the script.
Spec == Init /\ [][Next]_vars

NextRerun ==
    \/ Next
    \/ Rerun

\* Runs of the script, one after the other, on the same disk and input.
SpecRerun == Init /\ [][NextRerun]_vars

\* ===================================================== generate_site.py
\* The sync script is not running; dd is the data directory.
SyncOff(dd) ==
    /\ dataDir = dd
    /\ manifestFile = NoManifest
    /\ files = [n \in FileNames |-> NoFile]
    /\ pc = "off"
    /\ run = 1
    /\ data = <<>>
    /\ image_map = EmptyMap
    /\ i = 1
    /\ total = 0 /\ downloaded = 0 /\ skipped = 0 /\ failed = 0 /\ updated = 0
    /\ startMap = EmptyMap
    /\ log = <<>>
    /\ prevLog = <<>>

NoDataDir == [p \in DataFiles |-> NoData]

\* ------------------------------------------------------------- slugify
MaxText == 4

\* The characters of a text: letters of both cases, a digit, the underscore,
\* the hyphen, whitespace (space, tab) and punctuation.
Capitals == <<"A", "B">>
Smalls == <<"a", "b">>
Letters == {"a", "b", "c", "e", "i", "p", "r", "A", "B"}
DigitChars == {"1", "2"}
Whitespace == {" ", "\t"}
TextAlphabet == {"a", "B", "1", "_", "-", " ", "\t", "!"}
Texts == UNION {[1..n -> TextAlphabet] : n \in 0..MaxText}

\* \w
IsWord(c) == c \in Letters \cup DigitChars \cup {"_"}
\* [-\s]
IsSeparator(c) == c = "-" \/ c \in Whitespace

\* str.lower()
LowerChar(c) ==
    IF \E k \in DOMAIN Capitals : Capitals[k] = c
    THEN Smalls[CHOOSE k \in DOMAIN Capitals : Capitals[k] = c]
    ELSE c
lower(t) == [k \in 1..Len(t) |-> LowerChar(t[k])]

\* re.sub(r'[^\w\s-]', '', text)
StripNonWord(t) == SelectSeq(t, LAMBDA c : IsWord(c) \/ IsSeparator(c))

\* re.sub(r'[-\s]+', '-', text): each maximal run becomes one hyphen.
RECURSIVE CollapseFrom(_, _)
CollapseFrom(t, k) ==
    IF k > Len(t) THEN <<>>
    ELSE IF ~IsSeparator(t[k]) THEN <<t[k]>> \o CollapseFrom(t, k + 1)
    ELSE IF k > 1 /\ IsSeparator(t[k - 1]) THEN CollapseFrom(t, k + 1)
    ELSE <<"-">> \o CollapseFrom(t, k + 1)
CollapseSeparators(t) == CollapseFrom(t, 1)

\* str.strip('-')
StripHyphens(t) ==
    LET kept == {k \in 1..Len(t) : t[k] # "-"}
    IN  IF kept = {} THEN <<>>
        ELSE SubSeq(t, CHOOSE k \in kept : \A j \in kept : k <= j,
                       CHOOSE k \in kept : \A j \in kept : k >= j)

\* Variant: the hyphens are trimmed before the runs are collapsed.
slugify_TrimFirst(t) ==
    CollapseSeparators(StripHyphens(StripNonWord(lower(t))))

\* Lines 16-21.
slugify(t) ==
    StripHyphens(CollapseSeparators(StripNonWord(lower(t))))

SlugInit ==
    /\ SyncOff(NoDataDir)
    /\ sitePc = "slugify"
    /\ text \in Texts
    /\ slug = <<>> /\ reslug = <<>>
    /\ DurationOff
    /\ GeneratorOff

\* slugify(text)
SlugifyText ==
    /\ sitePc = "slugify"
    /\ slug' = slugify(text)
    /\ sitePc' = "slugified"
    /\ UNCHANGED <<syncVars, text, reslug, durationVars, generatorVars>>

\* slugify(slugify(text))
SlugifySlug ==
    /\ sitePc = "slugified"
    /\ reslug' = slugify(slug)
    /\ sitePc' = "reslugified"
    /\ UNCHANGED <<syncVars, text, slug, durationVars, generatorVars>>

SlugNext ==
    \/ SlugifyText
    \/ SlugifySlug

\* slugify, applied to a text and then to its own result.
SlugSpec == SlugInit /\ [][SlugNext]_vars

\* ------------------------------------------------------ parse_duration
MaxDuration == 6

DurationAlphabet == {"P", "T", "H", "M", "1", "2"}
DurationStrs == UNION {[1..n -> DurationAlphabet] : n \in 0..MaxDuration}

\* \d+ from position k: the position after the longest run of digits.
RECURSIVE DigitsEnd(_, _)
DigitsEnd(s, k) ==
    IF k <= Len(s) /\ s[k] \in DigitChars THEN DigitsEnd(s, k + 1) ELSE k

\* (?:(\d+)U)? at position k: the digits and the position after the unit, or
\* no group (val = <<>>, as None) and the same position.
Group(s, k, unit) ==
    LET e == DigitsEnd(s, k)
    IN  IF e > k /\ e <= Len(s) /\ s[e] = unit
        THEN [val |-> SubSeq(s, k, e - 1), next |-> e + 1]
        ELSE [val |-> <<>>, next |-> k]

\* re.match(r'PT...', s): the pattern matches once the string starts with PT.
Matches(s) == Len(s) >= 2 /\ s[1] = "P" /\ s[2] = "T"

\* ' '.join(parts) if parts else ''
JoinParts(h, m) ==
    LET hp == IF h # <<>> THEN h \o <<"h">> ELSE <<>>
        mp == IF m # <<>> THEN m \o <<"m">> ELSE <<>>
    IN  IF hp # <<>> /\ mp # <<>> THEN hp \o <<" ">> \o mp ELSE hp \o mp

\* Variant: a string the pattern does not match gives the empty string.
parse_duration_Blank(s) ==
    IF s = <<>> \/ ~Matches(s) THEN <<>>
    ELSE LET hours == Group(s, 3, "H")
             minutes == Group(s, hours.next, "M")
         IN  JoinParts(hours.val, minutes.val)

\* Lines 47-66.
parse_duration(s) ==
    IF s = <<>> THEN <<>>
    ELSE IF ~Matches(s) THEN s
    ELSE LET hours == Group(s, 3, "H")
             minutes == Group(s, hours.next, "M")
         IN  JoinParts(hours.val, minutes.val)

DurationInit ==
    /\ SyncOff(NoDataDir)
    /\ sitePc = "parse_duration"
    /\ duration_str \in DurationStrs
    /\ parsed = <<>>
    /\ SlugOff
    /\ GeneratorOff

\* parse_duration(duration_str)
ParseDuration ==
    /\ sitePc = "parse_duration"
    /\ parsed' = parse_duration(duration_str)
    /\ sitePc' = "parsed"
    /\ UNCHANGED <<syncVars, slugVars, duration_str, generatorVars>>

DurationNext == ParseDuration

\* parse_duration, applied to a string.
DurationSpec == DurationInit /\ [][DurationNext]_vars

\* ------------------------------------------------------- generate_site
BASE_URL == "https://everything.thatrises.com"

\* recipe.get('name', ...): absent, or a string.
NameAbsent == [given |-> FALSE, val |-> <<>>]
NameStr(n) == [given |-> TRUE, val |-> n]
\* "Ba !" and "ba" share a slug; the slug of "!" is empty.
Names == {<<"B", "a", " ", "!">>, <<"b", "a">>, <<"!">>}
SiteDurations == {<<>>, <<"P", "T", "1", "H", "2", "M">>}
\* Of a recipe the model keeps the fields the slug and the times are made of.
SiteRecipes ==
    [name : {NameAbsent} \cup {NameStr(n) : n \in Names},
     prepTime : SiteDurations]
SiteCollections == UNION {[1..n -> SiteRecipes] : n \in 0..MaxRecipes}

\* The files generate_site copies from the working directory.
StyleCss == "style.css"
Htaccess == ".htaccess"
AboutTemplate == "templates/about.html"
SourceFiles == {StyleCss, Htaccess, AboutTemplate}

\* The files of the output directory.
CssFile == <<"css/style.css">>
HtaccessFile == <<".htaccess">>
IndexFile == <<"i", "n", "d", "e", "x", ".html">>
AboutFile == <<"a", "b", "o", "u", "t", ".html">>
SitemapFile == <<"sitemap.xml">>
\* Path(output_dir) / f"{filename}.html"
PageFile(filename) == filename \o <<".html">>

WriteFile(dir, name, content) ==
    [n \in DOMAIN dir \cup {name} |-> IF n = name THEN content ELSE dir[n]]

WarnCss == "Warning: style.css not found in current directory"
WarnHtaccess == "Warning: .htaccess not found in current directory"
CopiedAbout == "Copied about page from templates/about.html"
WarnAbout == "Warning: templates/about.html not found. Skipping about page."
Success == "Site generated successfully!"

\* Line 71: slugify(recipe.get('name', 'recipe'))
DefaultName == <<"r", "e", "c", "i", "p", "e">>
SlugOf(recipe) ==
    slugify(IF recipe.name.given THEN recipe.name.val ELSE DefaultName)

\* Lines 323-333: of the returned record, the slug, the link and the time.
Meta(recipe) ==
    [slug |-> SlugOf(recipe),
     filename |-> SlugOf(recipe),
     prep_time |-> parse_duration(recipe.prepTime)]

\* Line 339: datetime.now().strftime('%Y-%m-%d'), once per sitemap.
current_date == "YYYY-MM-DD"
Url(loc, changefreq, priority) ==
    [loc |-> loc, lastmod |-> current_date, changefreq |-> changefreq,
     priority |-> priority]
\* Lines 344-349
IndexUrl == Url(<<BASE_URL, "/">>, "weekly", "1.0")
\* Lines 352-357
AboutUrl == Url(<<BASE_URL, "/", "a", "b", "o", "u", "t">>, "monthly", "0.5")
\* Lines 361-367
RecipeUrl(meta) == Url(<<BASE_URL, "/">> \o meta.filename, "monthly", "0.8")

\* Variant: a link that was listed already is not listed again.
RECURSIVE UniqueUrls(_, _)
UniqueUrls(metas, k) ==
    IF k > Len(metas) THEN <<>>
    ELSE IF \E j \in 1..(k - 1) : metas[j].filename = metas[k].filename
    THEN UniqueUrls(metas, k + 1)
    ELSE <<RecipeUrl(metas[k])>> \o UniqueUrls(metas, k + 1)
sitemap_entries_Unique(metas) == <<IndexUrl, AboutUrl>> \o UniqueUrls(metas, 1)

\* Lines 341-367: the index, the about page, then every recipe's page.
sitemap_entries(metas) ==
    <<IndexUrl, AboutUrl>> \o [k \in 1..Len(metas) |-> RecipeUrl(metas[k])]

\* Variant: without the template the run stops.
AfterAbout_Abort(found) == IF found THEN "sitemap" ELSE "aborted"

\* Lines 620-625, 673-677: copy_about_page returns from either branch and
\* generate_sitemap is next.
AfterAbout(found) == "sitemap"

SiteInit ==
    /\ \E c \in SiteCollections, given \in SUBSET DataFiles :
           SyncOff([p \in DataFiles |->
                       IF p \in given
                       THEN [exists |-> TRUE, recipes |-> c]
                       ELSE NoData])
    /\ sitePc = "main"
    /\ cwd \in SUBSET SourceFiles
    /\ site_recipes_file = <<>>
    /\ recipes = <<>>
    /\ recipes_meta = <<>>
    /\ page_i = 1
    /\ public = EmptyMap
    /\ console = <<>>
    /\ SlugOff
    /\ DurationOff

\* Lines 685-692: the augmented collection if there is one, else the input.
Main ==
    /\ sitePc = "main"
    /\ site_recipes_file' =
           IF dataDir[OutputJson(recipes_file)].exists
           THEN OutputJson(recipes_file)
           ELSE recipes_file
    /\ sitePc' = "static"
    /\ UNCHANGED <<syncVars, slugVars, durationVars, cwd, recipes,
                   recipes_meta, page_i, public, console>>

\* Lines 630-650: the output directory, the style sheet and .htaccess.
CopyStatic ==
    /\ sitePc = "static"
    /\ public' =
           LET withCss == IF StyleCss \in cwd
                          THEN WriteFile(public, CssFile, [kind |-> "css"])
                          ELSE public
           IN  IF Htaccess \in cwd
               THEN WriteFile(withCss, HtaccessFile, [kind |-> "htaccess"])
               ELSE withCss
    /\ console' =
           console \o (IF StyleCss \in cwd THEN <<>> ELSE <<WarnCss>>)
                   \o (IF Htaccess \in cwd THEN <<>> ELSE <<WarnHtaccess>>)
    /\ sitePc' = "load"
    /\ UNCHANGED <<syncVars, slugVars, durationVars, cwd, site_recipes_file,
                   recipes, recipes_meta, page_i>>

\* Lines 652-660: the recipes file is read.
LoadRecipes ==
    /\ sitePc = "load"
    /\ dataDir[site_recipes_file].exists
    /\ recipes' = dataDir[site_recipes_file].recipes
    /\ recipes_meta' = <<>>
    /\ page_i' = 1
    /\ sitePc' = "pages"
    /\ UNCHANGED <<syncVars, slugVars, durationVars, cwd, site_recipes_file,
                   public, console>>

\* Line 653: open() raises FileNotFoundError, which nothing catches.
LoadRecipesFails ==
    /\ sitePc = "load"
    /\ ~dataDir[site_recipes_file].exists
    /\ sitePc' = "aborted"
    /\ UNCHANGED <<syncVars, slugVars, durationVars, generatorVars>>

\* Lines 661-665, 68-333: the page of the next recipe is written under its
\* slug, over any page of that name, and its meta record is kept.
generate_recipe_page ==
    /\ sitePc = "pages" /\ page_i <= Len(recipes)
    /\ public' = WriteFile(public, PageFile(SlugOf(recipes[page_i])),
                           [kind |-> "page", of |-> Meta(recipes[page_i])])
    /\ recipes_meta' = Append(recipes_meta, Meta(recipes[page_i]))
    /\ page_i' = page_i + 1
    /\ UNCHANGED <<syncVars, slugVars, durationVars, sitePc, cwd,
                   site_recipes_file, recipes, console>>

\* Lines 667-669, 380-615
generate_index_page ==
    /\ sitePc = "pages" /\ page_i > Len(recipes)
    /\ public' = WriteFile(public, IndexFile,
                           [kind |-> "index", cards |-> recipes_meta])
    /\ sitePc' = "about"
    /\ UNCHANGED <<syncVars, slugVars, durationVars, cwd, site_recipes_file,
                   recipes, recipes_meta, page_i, console>>

\* Lines 671-673, 617-625
copy_about_page ==
    /\ sitePc = "about"
    /\ IF AboutTemplate \in cwd
       THEN /\ public' = WriteFile(public, AboutFile, [kind |-> "about"])
            /\ console' = Append(console, CopiedAbout)
       ELSE /\ public' = public
            /\ console' = Append(console, WarnAbout)
    /\ sitePc' = AfterAbout(AboutTemplate \in cwd)
    /\ UNCHANGED <<syncVars, slugVars, durationVars, cwd, site_recipes_file,
                   recipes, recipes_meta, page_i>>

\* Lines 675-677, 335-378
generate_sitemap ==
    /\ sitePc = "sitemap"
    /\ public' = WriteFile(public, SitemapFile,
                           [kind |-> "sitemap",
                            urls |-> sitemap_entries(recipes_meta)])
    /\ sitePc' = "summary"
    /\ UNCHANGED <<syncVars, slugVars, durationVars, cwd, site_recipes_file,
                   recipes, recipes_meta, page_i, console>>

\* Lines 679-683
PrintSummary ==
    /\ sitePc = "summary"
    /\ console' = Append(console, Success)
    /\ sitePc' = "done"
    /\ UNCHANGED <<syncVars, slugVars, durationVars, cwd, site_recipes_file,
                   recipes, recipes_meta, page_i, public>>

SiteNext ==
    \/ Main
    \/ CopyStatic
    \/ LoadRecipes
    \/ LoadRecipesFails
    \/ generate_recipe_page
    \/ generate_index_page
    \/ copy_about_page
    \/ generate_sitemap
    \/ PrintSummary

\* One run of the site generator.
SiteSpec == SiteInit /\ [][SiteNext]_vars

\* ------------------------------------------------------------------ claims
\* An iteration of the loop over a recipe that has an image.
AtRecipeWithImage == pc = "loop" /\ i <= total /\ ~NoImages(Current)
LastEntry(l) == l[Len(l)]
Logged == Len(log') = Len(log) + 1
ManifestHas(id) == id \in DOMAIN image_map

\* The rules in the order the specification lists them.
ListedRule(fileExists, map, recipe_id, image_url) ==
    IF ~fileExists THEN "new image"
    ELSE IF recipe_id \notin DOMAIN map THEN "not tracked"
    ELSE IF map[recipe_id] # image_url THEN "URL changed"
    ELSE "none"

\* C1: for a recipe with an image, the iteration decides by the first rule
\* that matches, in the order file absent (new), identifier untracked (not
\* tracked), recorded URL different (URL changed), else skip; a fetch is
\* attempted iff the file is absent or the identifier is not in the manifest
\* or the recorded URL differs.
C1_DecisionRule ==
    [][AtRecipeWithImage =>
          /\ Logged
          /\ LastEntry(log').reason =
                 ListedRule(CurExists, image_map, CurId, CurUrl)
          /\ (LastEntry(log').kind = "fetch") <=>
                 (\/ ~CurExists
                  \/ ~ManifestHas(CurId)
                  \/ image_map[CurId] # CurUrl)
          /\ LastEntry(log').kind \in {"fetch", "exists"}]_vars

\* One run met an untracked existing file and a changed URL.
C1_Witness ==
    /\ \E k \in DOMAIN log : log[k].reason = "not tracked" /\ log[k].existed
    /\ \E k \in DOMAIN log : log[k].reason = "URL changed"

OutputFile == <<"data", "recipes_with_local_images.json">>
Written == dataDir[OutputFile].recipes
FetchedOk(e) == e.kind = "fetch" /\ e.ok
FetchedFailed(e) == e.kind = "fetch" /\ ~e.ok
\* The manifest held another URL for the recipe when it was processed.
UrlChangedAt(e) == e.kind # "noimage" /\ e.was # <<>> /\ e.was # e.url
\* A later recipe of the run with the same identifier was downloaded from
\* another URL.
LaterOkOther(l, k) ==
    \E j \in (k + 1)..Len(l) :
        l[j].id = l[k].id /\ FetchedOk(l[j]) /\ l[j].url # l[k].url
ManifestMaps(id, u) ==
    /\ manifestFile.exists
    /\ id \in DOMAIN manifestFile.map
    /\ manifestFile.map[id] = u

\* C3 as stated: for a recipe whose manifest entry differs from its URL, the
\* run fetches the new URL and the manifest written at the end maps the
\* identifier to it.
C3_Original ==
    pc = "done" =>
        \A k \in DOMAIN log :
            UrlChangedAt(log[k]) =>
                log[k].kind = "fetch" /\ ManifestMaps(log[k].id, log[k].url)

\* C3, amended: for a recipe whose manifest entry differs from its URL, the
\* run attempts a fetch of the new URL; when that fetch succeeds and no later
\* recipe with the same identifier is downloaded from another URL, the
\* manifest written at the end maps the identifier to the new URL.
C3_UrlChanged ==
    pc = "done" =>
        \A k \in DOMAIN log :
            UrlChangedAt(log[k]) =>
                /\ log[k].kind = "fetch"
                /\ (log[k].ok /\ ~LaterOkOther(log, k)) =>
                       ManifestMaps(log[k].id, log[k].url)

\* A changed URL was fetched and the written manifest holds it.
C3_Witness ==
    /\ pc = "done"
    /\ \E k \in DOMAIN log :
           /\ UrlChangedAt(log[k])
           /\ FetchedOk(log[k])
           /\ ManifestMaps(log[k].id, log[k].url)
           /\ startMap[log[k].id] # log[k].url

\* C4: an iteration whose fetch fails adds one to the failure counter and
\* leaves the manifest entry (absent stays absent) and the recipes, so the
\* recipe's localImage, as they were; the written collection holds no
\* localImage for that recipe.
C4_FailureLeavesState ==
    /\ [][(Logged /\ FetchedFailed(LastEntry(log'))) =>
             /\ failed' = failed + 1
             /\ image_map' = image_map
             /\ manifestFile' = manifestFile
             /\ data' = data
             /\ data[i].localImage = NoLocal]_vars
    /\ [](pc = "done" =>
             \A k \in DOMAIN log :
                 FetchedFailed(log[k]) => Written[k].localImage = NoLocal)

\* A fetch failed for an untracked recipe and the run ended.
C4_Witness ==
    /\ pc = "done"
    /\ failed >= 1
    /\ \E k \in DOMAIN log :
           /\ FetchedFailed(log[k])
           /\ log[k].was = <<>>
           /\ log[k].id \notin DOMAIN manifestFile.map

\* How far the run is.
Stage ==
    CASE pc = "start" -> 0
      [] pc = "loop" -> 1
      [] pc = "save_recipes" -> 2
      [] pc = "done" -> 3

\* C5: whatever fetches fail, the run processes every recipe in input order
\* and ends with the manifest file and the augmented collection written:
\* every step is the next recipe of the loop or a later stage of the run,
\* the loop index never passes total + 1 (so a run ends within total + 3
\* steps), and a run that has ended has processed the recipes 1..total in
\* order and written both files.
C5_BatchCompletes ==
    /\ [][\/ pc = "done" /\ run' = run + 1
          \/ run' = run /\ Stage' > Stage
          \/ /\ run' = run /\ pc = "loop" /\ pc' = "loop"
             /\ i <= total /\ i' = i + 1
             /\ Logged /\ LastEntry(log').i = i]_vars
    /\ [](/\ pc \in {"start", "loop", "save_recipes", "done"}
          /\ pc = "loop" => i \in 1..(total + 1)
          /\ run \in 1..MaxRuns)
    /\ [](pc = "done" =>
             /\ Len(log) = total
             /\ total = Len(dataDir[recipes_file].recipes)
             /\ \A k \in DOMAIN log :
                    log[k].i = k /\ log[k].id = RecipeId(data[k], k)
             /\ manifestFile = [exists |-> TRUE, map |-> image_map]
             /\ dataDir[OutputFile] = [exists |-> TRUE, recipes |-> data])

\* The first fetch failed, the second recipe was fetched, the run ended.
C5_Witness ==
    /\ pc = "done"
    /\ Len(log) = 2
    /\ FetchedFailed(log[1])
    /\ FetchedOk(log[2])
    /\ dataDir[OutputFile].exists

\* C6 as stated: after a run, the written manifest maps the identifier of
\* every recipe downloaded in the run to that recipe's first image URL.
C6_Original ==
    pc = "done" =>
        \A k \in DOMAIN log :
            FetchedOk(log[k]) =>
                ManifestMaps(RecipeId(data[k], k), ImageUrl(data[k]))

\* C6, amended: after a run, the written manifest maps the identifier of every
\* recipe downloaded in the run to that recipe's first image URL, unless a
\* later recipe with the same identifier was downloaded from another URL.
C6_ManifestLastWins ==
    pc = "done" =>
        \A k \in DOMAIN log :
            (FetchedOk(log[k]) /\ ~LaterOkOther(log, k)) =>
                ManifestMaps(RecipeId(data[k], k), ImageUrl(data[k]))

\* Two recipes share an identifier, both were downloaded, and the manifest
\* holds the URL of the second.
C6_Witness ==
    /\ pc = "done"
    /\ Len(log) = 2
    /\ FetchedOk(log[1]) /\ FetchedOk(log[2])
    /\ log[1].id = log[2].id
    /\ log[1].url # log[2].url
    /\ ManifestMaps(log[2].id, log[2].url)

\* The image field is empty or absent.
ImageEmptyOrAbsent(recipe) ==
    recipe.image \in {ImageAbsent, ImageList(<<>>), ImageStr(<<>>)}

\* C7: for a recipe whose image field is empty or absent the iteration
\* attempts no fetch, changes neither the image files nor the manifest nor
\* the recipe, and counts it as skipped; the written collection holds no
\* localImage for it.
C7_NoImageSkipped ==
    /\ [][(pc = "loop" /\ i <= total /\ ImageEmptyOrAbsent(data[i])) =>
             /\ Logged
             /\ LastEntry(log').kind = "noimage"
             /\ files' = files
             /\ image_map' = image_map
             /\ manifestFile' = manifestFile
             /\ data' = data
             /\ skipped' = skipped + 1
             /\ downloaded' = downloaded /\ updated' = updated
             /\ failed' = failed]_vars
    /\ [](pc = "done" =>
             \A k \in DOMAIN data :
                 ImageEmptyOrAbsent(data[k]) => Written[k].localImage = NoLocal)

\* A recipe with an empty string as its image was skipped, in a run that ended.
C7_Witness ==
    /\ pc = "done"
    /\ \E k \in DOMAIN log :
           /\ log[k].kind = "noimage"
           /\ data[k].image = ImageStr(<<>>)
           /\ Written[k].localImage = NoLocal
    /\ skipped >= 1

\* The suffix of each URL's path, ".jpg" where the path has none.
SuffixOf(u) ==
    IF u = UrlA THEN <<".", "p", "n", "g">> ELSE <<".", "j", "p", "g">>
TargetOf(e) == <<e.id>> \o SuffixOf(e.url)
Present(name) == name \in DOMAIN files /\ files[name] # NoFile
\* The recipe had neither a target file nor a manifest entry and was fetched.
FreshDownload(e) == FetchedOk(e) /\ ~e.existed /\ e.was = <<>>

\* C8 as stated: after a successful download of a recipe with no target file
\* and no manifest entry, the run ends with the file {id}{ext} present,
\* manifest[id] = u and localImage = "images/{id}{ext}".
C8_Original ==
    pc = "done" =>
        \A k \in DOMAIN log :
            FreshDownload(log[k]) =>
                /\ Present(TargetOf(log[k]))
                /\ ManifestMaps(log[k].id, log[k].url)
                /\ Written[k].localImage = <<"images/">> \o TargetOf(log[k])

\* C8, amended: after such a download the run ends with the file present and
\* localImage = "images/{id}{ext}", and with manifest[id] = u unless a later
\* recipe with the same identifier was downloaded from another URL.
C8_DownloadEffects ==
    pc = "done" =>
        \A k \in DOMAIN log :
            FreshDownload(log[k]) =>
                /\ Present(TargetOf(log[k]))
                /\ ~LaterOkOther(log, k) => ManifestMaps(log[k].id, log[k].url)
                /\ Written[k].localImage = <<"images/">> \o TargetOf(log[k])

\* A URL without a suffix was downloaded to {id}.jpg.
C8_Witness ==
    /\ pc = "done"
    /\ \E k \in DOMAIN log :
           /\ FreshDownload(log[k])
           /\ log[k].url = UrlC
           /\ files[<<log[k].id, ".", "j", "p", "g">>] = Fetched(UrlC)
           /\ ManifestMaps(log[k].id, UrlC)
           /\ Written[k].localImage = <<"images/", log[k].id, ".", "j", "p", "g">>

\* The recipe at position k failed in the run before and is fetched in this one.
Refetched(k) ==
    /\ k \in DOMAIN log /\ k \in DOMAIN prevLog
    /\ FetchedFailed(prevLog[k])
    /\ log[k].kind = "fetch"
FetchesOf(l, k) ==
    Cardinality({j \in DOMAIN l : l[j].i = k /\ l[j].kind = "fetch"})
\* A download was needed when the recipe was processed.
NeededAt(e) ==
    e.kind # "noimage" /\ (~e.existed \/ e.was = <<>> \/ e.was # e.url)

\* C9 as stated: a recipe whose fetch failed in one run is fetched again in
\* the next by the rule 'new' or the rule 'not tracked'.
C9_Original ==
    \A k \in 1..total :
        Refetched(k) => log[k].reason \in {"new image", "not tracked"}

\* C9, amended: within one run each recipe is fetched at most once, and
\* exactly once when a download is needed; a recipe whose fetch failed is
\* fetched again only in the next run, by the rule that then applies: 'new'
\* (file absent), 'not tracked' (no manifest entry) or 'URL changed' (the
\* file exists and the manifest still holds another URL).
C9_NoRetry ==
    /\ \A k \in 1..total : FetchesOf(log, k) <= 1
    /\ \A j \in DOMAIN log : (log[j].kind = "fetch") <=> NeededAt(log[j])
    /\ pc = "done" => \A k \in 1..total : \E j \in DOMAIN log : log[j].i = k
    /\ \A k \in 1..total :
           Refetched(k) =>
               /\ (log[k].reason = "new image") <=> ~log[k].existed
               /\ (log[k].reason = "not tracked") <=>
                      (log[k].existed /\ log[k].was = <<>>)
               /\ (log[k].reason = "URL changed") <=>
                      (log[k].existed /\ UrlChangedAt(log[k]))

\* A fetch failed in the first run and the second run fetches the recipe
\* because its URL changed.
C9_Witness ==
    /\ run = 2
    /\ \E k \in 1..total : Refetched(k) /\ log[k].reason = "URL changed"

\* C10: the input file is never written; the manifest file is written only
\* at the end of the run, in full: it holds every entry loaded at the start,
\* unchanged unless its identifier was downloaded in this run; the augmented
\* collection goes to another file than the input.
C10_Frame ==
    /\ [][/\ dataDir'[recipes_file] = dataDir[recipes_file]
          /\ manifestFile' # manifestFile =>
                 (pc = "loop" /\ i > total /\ pc' = "save_recipes")]_vars
    /\ [](pc \in {"save_recipes", "done"} =>
             /\ manifestFile.exists
             /\ \A id \in DOMAIN startMap :
                    /\ id \in DOMAIN manifestFile.map
                    /\ (\A j \in DOMAIN log :
                            ~(log[j].id = id /\ FetchedOk(log[j]))) =>
                           manifestFile.map[id] = startMap[id])
    /\ [](pc = "done" =>
             /\ OutputFile # recipes_file
             /\ dataDir[OutputFile] = [exists |-> TRUE, recipes |-> data])

\* The manifest held an entry of an identifier no recipe has; a run that
\* downloaded an image ended and the entry is still there.
C10_Witness ==
    /\ pc = "done"
    /\ \E id \in DOMAIN startMap :
           /\ \A j \in DOMAIN log : log[j].id # id
           /\ ManifestMaps(id, startMap[id])
    /\ \E j \in DOMAIN log : FetchedOk(log[j])
    /\ manifestFile.map # startMap

\* -------------------------------------------------------------- slugify
HasWhitespace(t) == \E k \in DOMAIN t : t[k] \in {" ", "\t"}
HasDoubleHyphen(t) == \E k \in 1..(Len(t) - 1) : t[k] = "-" /\ t[k + 1] = "-"
HyphenAtEnds(t) == t # <<>> /\ (t[1] = "-" \/ t[Len(t)] = "-")

\* C11: for every text over the alphabet (letters of both cases, digits,
\* underscore, hyphen, whitespace, punctuation), the slug holds no whitespace,
\* no two adjacent hyphens and no leading or trailing hyphen, and slugify of
\* the slug is the slug.
C11_SlugIdempotent ==
    /\ sitePc \in {"slugified", "reslugified"} =>
           /\ ~HasWhitespace(slug)
           /\ ~HasDoubleHyphen(slug)
           /\ ~HyphenAtEnds(slug)
    /\ sitePc = "reslugified" => reslug = slug

\* A text with a capital, punctuation between hyphens and whitespace at the
\* end was slugified twice.
C11_Witness ==
    /\ sitePc = "reslugified"
    /\ text = <<"B", "-", "!", " ">>
    /\ slug = <<"b">>
    /\ reslug = <<"b">>

\* ------------------------------------------------------- site generator
Printed(line) == \E k \in DOMAIN console : console[k] = line
SitemapWritten == SitemapFile \in DOMAIN public
NoAboutTemplate == "templates/about.html" \notin cwd

\* C12 as stated: when templates/about.html does not exist the run aborts:
\* the sitemap is not generated and the success summary is not printed.
C12_Original ==
    NoAboutTemplate => ~SitemapWritten /\ ~Printed(Success)

\* C12, amended: a missing templates/about.html is not fatal: copy_about_page
\* prints a warning and writes no file, and the run goes on to generate the
\* sitemap and to print the success summary.  The run aborts only where the
\* recipes file is opened and does not exist, before any page is written.
C12_MissingTemplateWarns ==
    /\ [][(sitePc = "about" /\ NoAboutTemplate) =>
             /\ sitePc' = "sitemap"
             /\ public' = public
             /\ console' = Append(console, WarnAbout)]_vars
    /\ [][/\ sitePc = "sitemap" => sitePc' = "summary" /\ SitemapWritten'
          /\ sitePc = "summary" => sitePc' = "done" /\ Printed(Success)'
          /\ sitePc' = "aborted" =>
                 /\ sitePc = "load"
                 /\ ~dataDir[site_recipes_file].exists]_vars
    /\ []((sitePc = "done" /\ NoAboutTemplate) =>
             /\ Printed(WarnAbout)
             /\ SitemapWritten
             /\ Printed(Success))
    /\ [](sitePc = "aborted" =>
             /\ ~SitemapWritten /\ ~Printed(Success)
             /\ \A n \in DOMAIN public : public[n].kind \in {"css", "htaccess"})

\* A run without templates/about.html ended: it warned, wrote no about page,
\* wrote the sitemap and printed the summary.
C12_Witness ==
    /\ sitePc = "done"
    /\ NoAboutTemplate
    /\ Printed(WarnAbout)
    /\ AboutFile \notin DOMAIN public
    /\ SitemapWritten
    /\ Printed(Success)

\* The <url> entries of the sitemap that was written.
SitemapUrls == public[SitemapFile].urls
\* The link of a recipe: the slug of its name, of 'recipe' when it has none.
LinkOf(recipe) ==
    <<BASE_URL, "/">> \o
        slugify(IF recipe.name = NameAbsent
                THEN <<"r", "e", "c", "i", "p", "e">>
                ELSE recipe.name.val)
SharedSlug ==
    \E j, k \in DOMAIN recipes : j < k /\ LinkOf(recipes[j]) = LinkOf(recipes[k])

\* C13: the sitemap written for a collection of n recipes has n + 2 <url>
\* entries: the index, the about page, then one per recipe in collection
\* order, whether or not two recipes share a slug and whether or not an about
\* page was produced.
C13_SitemapEntries ==
    SitemapWritten =>
        /\ Len(SitemapUrls) = Len(recipes) + 2
        /\ SitemapUrls[1].loc = <<BASE_URL, "/">>
        /\ SitemapUrls[2].loc = <<BASE_URL, "/", "a", "b", "o", "u", "t">>
        /\ \A k \in DOMAIN recipes :
               SitemapUrls[k + 2].loc = LinkOf(recipes[k])

\* Two recipes share a slug, no about page was produced, and the sitemap has
\* four entries, the last two with the same link.
C13_Witness ==
    /\ sitePc = "done"
    /\ Len(recipes) = 2
    /\ recipes[1].name # recipes[2].name
    /\ SharedSlug
    /\ AboutFile \notin DOMAIN public
    /\ Len(SitemapUrls) = 4
    /\ SitemapUrls[3].loc = SitemapUrls[4].loc

\* ------------------------------------------------------- parse_duration
\* The numbers of one or two digits, and no number.
Numbers == UNION {[1..n -> {"1", "2"}] : n \in 1..2}
NoNumber == <<>>
\* "PT<h>H<m>M", each part optional.
Iso(h, m) ==
    <<"P", "T">> \o (IF h = NoNumber THEN <<>> ELSE h \o <<"H">>)
                 \o (IF m = NoNumber THEN <<>> ELSE m \o <<"M">>)
\* "<h>h <m>m" with only the present parts.
Shown(h, m) ==
    IF h = NoNumber /\ m = NoNumber THEN <<>>
    ELSE IF m = NoNumber THEN h \o <<"h">>
    ELSE IF h = NoNumber THEN m \o <<"m">>
    ELSE h \o <<"h", " ">> \o m \o <<"m">>
Converts ==
    \A h, m \in Numbers \cup {NoNumber} :
        duration_str = Iso(h, m) => parsed = Shown(h, m)
StartsWithPT(s) == Len(s) >= 2 /\ SubSeq(s, 1, 2) = <<"P", "T">>

\* C14 as stated: "PT<h>H<m>M" (each part optional) becomes "<h>h <m>m" with
\* only the present parts, and the input is returned unchanged only when it is
\* the empty string.
C14_Original ==
    sitePc = "parsed" =>
        /\ Converts
        /\ parsed = duration_str => duration_str = <<>>

\* C14, amended: "PT<h>H<m>M" (each part optional) becomes "<h>h <m>m" with
\* only the present parts, and the input is returned unchanged exactly when it
\* does not begin with "PT" (the empty string included): a non-empty input
\* that does not begin with "PT" is returned as it is, one that begins with
\* "PT" never is.
C14_DurationShown ==
    sitePc = "parsed" =>
        /\ Converts
        /\ (parsed = duration_str) <=> ~StartsWithPT(duration_str)

\* "PT2H1M" was converted to "2h 1m".
C14_Witness ==
    /\ sitePc = "parsed"
    /\ duration_str = <<"P", "T", "2", "H", "1", "M">>
    /\ parsed = <<"2", "h", " ", "1", "m">>

\* ---------------------------------------------------------- image sync
\* The recipes of the input have pairwise distinct identifiers.
DistinctIdentifiers ==
    LET c == dataDir[<<"data", "recipes.json">>].recipes
        IdAt(k) == IF c[k].identifier = NoId THEN DefaultIds[k]
                   ELSE c[k].identifier
    IN  \A j, k \in DOMAIN c : j # k => IdAt(j) # IdAt(k)
\* Every fetch of the run before succeeded.
PrevAllOk == \A k \in DOMAIN prevLog : prevLog[k].kind = "fetch" => prevLog[k].ok
\* This run follows one whose fetches all succeeded, on distinct identifiers.
AfterCleanRun == run > 1 /\ DistinctIdentifiers /\ PrevAllOk

\* C15: for recipes with pairwise distinct identifiers, the run that follows
\* a run whose fetches all succeeded, on the same input and disk, attempts no
\* fetch, counts every recipe as skipped, and writes the manifest it loaded,
\* which is the one the run before wrote.
C15_Convergence ==
    AfterCleanRun =>
        /\ \A j \in DOMAIN log : log[j].kind # "fetch"
        /\ manifestFile.exists
        /\ pc # "start" =>
               /\ downloaded = 0 /\ updated = 0 /\ failed = 0
               /\ skipped = Len(log)
               /\ image_map = startMap
               /\ manifestFile.map = startMap
        /\ pc = "done" =>
               /\ skipped = total
               /\ total = Len(dataDir[<<"data", "recipes.json">>].recipes)

\* The first run downloaded two images, one of them because its URL had
\* changed; the second run ended with both recipes skipped.
C15_Witness ==
    /\ run = 2 /\ pc = "done"
    /\ DistinctIdentifiers
    /\ Len(prevLog) = 2
    /\ \A k \in 1..2 : prevLog[k].kind = "fetch" /\ prevLog[k].ok
    /\ \E k \in 1..2 : prevLog[k].reason = "URL changed"
    /\ skipped = 2 /\ downloaded = 0
    /\ \A k \in 1..2 : log[k].kind = "exists"

\* The input of the run.
Input == dataDir[<<"data", "recipes.json">>].recipes

\* C16: at the end of a run over recipes without localImage, a recipe of the
\* written collection has localImage iff its image field is non-empty and its
\* fetch, if there was one, did not fail; then localImage is
\* "images/{id}{ext}", also for a recipe skipped as up to date.
C16_LocalImage ==
    pc = "done" =>
        /\ Len(Written) = Len(Input)
        /\ \A k \in DOMAIN Written :
               /\ Input[k].localImage = NoLocal
               /\ (Written[k].localImage # NoLocal) <=>
                      (~ImageEmptyOrAbsent(Input[k]) /\ ~FetchedFailed(log[k]))
               /\ Written[k].localImage # NoLocal =>
                      Written[k].localImage = <<"images/">> \o TargetOf(log[k])
               /\ log[k].kind = "exists" => Written[k].localImage # NoLocal

\* A run ended with one recipe skipped as up to date, which has localImage,
\* and one whose fetch failed, which has none.
C16_Witness ==
    /\ pc = "done"
    /\ \E k \in DOMAIN log :
           /\ log[k].kind = "exists"
           /\ Written[k].localImage = <<"images/">> \o TargetOf(log[k])
    /\ \E k \in DOMAIN log :
           FetchedFailed(log[k]) /\ Written[k].localImage = NoLocal

\* The iterations of the run so far of which P holds.
Count(P(_)) == Cardinality({k \in DOMAIN log : P(log[k])})
IsSkip(e) == e.kind # "fetch"
IsUpdate(e) == e.kind = "fetch" /\ e.existed /\ UrlChangedAt(e)
IsDownload(e) == e.kind = "fetch" /\ ~(e.existed /\ UrlChangedAt(e))

\* C17: every recipe processed is counted in exactly one of downloaded,
\* updated and skipped, so they sum to total at the end of the run; a failed
\* fetch is counted in failed as well, so failed <= downloaded + updated and
\* the four counters sum to total + failed; updated counts the fetches of
\* recipes whose file existed and whose manifest entry differed from the URL.
C17_Counters ==
    pc \in {"loop", "save_recipes", "done"} =>
        /\ skipped = Count(IsSkip)
        /\ updated = Count(IsUpdate)
        /\ downloaded = Count(IsDownload)
        /\ failed = Count(FetchedFailed)
        /\ downloaded + updated + skipped = Len(log)
        /\ failed <= downloaded + updated
        /\ pc = "done" =>
               /\ downloaded + updated + skipped = total
               /\ downloaded + updated + skipped + failed = total + failed

\* A run ended after a failed update and a download of an untracked file.
C17_Witness ==
    /\ pc = "done"
    /\ total = 2
    /\ updated = 1 /\ downloaded = 1 /\ skipped = 0 /\ failed = 1
    /\ IsUpdate(log[1]) /\ ~log[1].ok
    /\ log[2].reason = "not tracked" /\ log[2].ok

====
